---------------------------- MODULE Spec2Model ----------------------------
(***************************************************************************)
(* Flow-field particle visualizer (src/src/main.rs).                       *)
(*                                                                         *)
(* The model follows main(): the initialisation loop that builds the       *)
(* particle vector, then the frame loop (clear, update and draw every      *)
(* particle, present, sleep).  Integer types keep their width: Coord is    *)
(* u16, Speed is i8, ttl is u8.  Rust integer overflow depends on the      *)
(* build profile: with overflow checks (debug) the operation panics,       *)
(* without (release) it wraps; the profile is chosen in Init.              *)
(*                                                                         *)
(* Floating point is modelled by exact arithmetic: cos/sin by a            *)
(* fixed-point table over the multiples of 45 degrees, the hue             *)
(* conversion by rationals.  The noise field and the random generator      *)
(* are external: their results are drawn nondeterministically.             *)
(***************************************************************************)
EXTENDS Integers, Sequences, FiniteSets, TLC

(***************************************************************************)
(* Bounds of the model.                                                    *)
(***************************************************************************)
MaxWidth == 2
MaxHeight == 1
MaxTtl == 2
NbParticles == 2

\* the iteration speeds tried (main uses 5); 200 makes the i8 cast saturate
IterationSpeeds == {1, 5, 200}

\* noise samples in quarters: sample = q / 4, q in -4..4, i.e. [-1, 1]
Samples == -4 .. 4

\* the samples tried in the frame loop: the multiples of 1/2 (right angles)
FrameSamples == {-4, -2, 0, 2, 4}

(***************************************************************************)
(* Integer widths.                                                         *)
(***************************************************************************)
U16 == 65536
U8 == 256
I8Min == -128
I8Max == 127

\* a rounding toward minus infinity
TruncFloor(n, d) == n \div d

\* truncation toward zero of n / d  (d > 0), as a float-to-int cast does
Trunc(n, d) == IF n >= 0 THEN n \div d ELSE -((-n) \div d)

\* `as i8` from a float: saturating
SatI8(v) == IF v < I8Min THEN I8Min ELSE IF v > I8Max THEN I8Max ELSE v

(***************************************************************************)
(* cos and sin, fixed point with scale TrigScale, for the multiples of 45  *)
(* degrees.                                                                *)
(***************************************************************************)
TrigScale == 1000000

CosTable(deg) ==
    LET d == deg % 360 IN
    CASE d = 0 -> 1000000
      [] d = 45 -> 707107
      [] d = 90 -> 0
      [] d = 135 -> -707107
      [] d = 180 -> -1000000
      [] d = 225 -> -707107
      [] d = 270 -> 0
      [] d = 315 -> 707107

SinTable(deg) == CosTable(deg + 270)

\* fn convert_radian_speed_to_cardinal_speed(speed: u8, direction: f64) -> (i8, i8)
\* direction is given in degrees (a multiple of 45)
convert_radian_speed_to_cardinal_speed(speed, direction) ==
    << SatI8(Trunc(CosTable(direction) * speed, TrigScale)),
       SatI8(Trunc(SinTable(direction) * speed, TrigScale)) >>

\* impl From<(i8, i8)> for Speed
SpeedFrom(t) == [x |-> t[1], y |-> t[2]]

\* Coord::scale without the shift to [-1, 1]
Coord_scaleNoShift(coord, width, height) ==
    << <<2 * coord.x, width>>, <<2 * coord.y, height>> >>

\* Coord::scale: x / width * 2 - 1 and y / height * 2 - 1, as the rationals
\* <<numerator, denominator>>
Coord_scale(coord, width, height) ==
    << <<2 * coord.x - width, width>>, <<2 * coord.y - height, height>> >>

(***************************************************************************)
(* impl Add<Speed> for Coord, one axis.  Result: the new u16 value and     *)
(* whether an integer overflow happened on the way (i8 negation, u16       *)
(* subtraction or u16 addition).                                           *)
(***************************************************************************)
AxisAdd(c, s) ==
    IF s < 0
    THEN LET negOvf == (s = I8Min)
             neg == IF negOvf THEN I8Min ELSE -s        \* -rhs.x in i8
             asU16 == IF neg < 0 THEN U16 + neg ELSE neg \* as u16
         IN [val |-> (c - asU16) % U16,
             overflow |-> negOvf \/ c - asU16 < 0]
    ELSE [val |-> (c + s) % U16, overflow |-> c + s >= U16]

CoordAdd(coord, speed) ==
    LET ax == AxisAdd(coord.x, speed.x)
        ay == AxisAdd(coord.y, speed.y)
    IN [coord |-> [x |-> ax.val, y |-> ay.val],
        overflow |-> ax.overflow \/ ay.overflow]

\* Particle::new
Particle_new(x, y, ttl) ==
    [coord |-> [x |-> x, y |-> y], speed |-> [x |-> 0, y |-> 0], ttl |-> ttl]

\* the re-insertion with the high edge tested by > instead of >=
MustRespawnOffByOne(coord, ttl, param) ==
    coord.x > param.width \/ coord.y > param.height \/ ttl = 0

\* the re-insertion without the test of the age
MustRespawnNoAge(coord, ttl, param) ==
    coord.x >= param.width \/ coord.y >= param.height

\* the condition of the re-insertion in Particle::update
MustRespawn(coord, ttl, param) ==
    coord.x >= param.width \/ coord.y >= param.height \/ ttl = 0

\* an update that forgets the decrement
TtlNoDecrement(ttl) == ttl

\* self.ttl -= 1 on a u8
TtlDecrement(ttl) == (ttl - 1) % U8

\* a scaling of the sample by 360 instead of 180
DirectionFullScale(sample) == sample * 90

\* let direction = param.noise.get(..) * 180. ; sample is in quarters, the
\* direction in degrees
Direction(sample) == sample * 45

\* the velocity computed at the end of Particle::update; sample is in quarters
NewSpeed(param, sample) ==
    SpeedFrom(convert_radian_speed_to_cardinal_speed(param.iteration_speed,
                                                     Direction(sample)))

\* a velocity added to the previous one (impl AddAssign<(i8, i8)> for Speed)
\* instead of replacing it
StoreSpeedAccumulate(prev, param, sample) ==
    LET new == NewSpeed(param, sample)
        wrap(v) == ((v - I8Min) % U8) + I8Min
    IN [x |-> wrap(prev.x + new.x), y |-> wrap(prev.y + new.y)]

\* self.speed = convert_radian_speed_to_cardinal_speed(..).into(): the
\* previous velocity prev is overwritten
StoreSpeed(prev, param, sample) == NewSpeed(param, sample)

(***************************************************************************)
(* Particle::update.  rnd is the position Coord::rand draws (used only     *)
(* when the particle is re-inserted), sample the noise sample at the       *)
(* final position, checks whether the build panics on integer overflow.    *)
(* The result holds the particle when update returns, or panic = TRUE,     *)
(* and what happened on the way.                                           *)
(***************************************************************************)
Particle_update(p, param, rnd, sample, checks) ==
    LET moved == CoordAdd(p.coord, p.speed)
        escaped == \/ p.coord.x + p.speed.x < 0
                   \/ p.coord.x + p.speed.x >= param.width
                   \/ p.coord.y + p.speed.y < 0
                   \/ p.coord.y + p.speed.y >= param.height
        respawn == MustRespawn(moved.coord, p.ttl, param)
        coord == IF respawn THEN rnd ELSE moved.coord
        ttl0 == IF respawn THEN param.ttl ELSE p.ttl
        underflow == (ttl0 = 0)
        panic == checks /\ (moved.overflow \/ underflow)
    IN [panic |-> panic,
        particle |-> IF panic THEN p
                     ELSE [coord |-> coord,
                           speed |-> StoreSpeed(p.speed, param, sample),
                           ttl |-> TtlDecrement(ttl0)],
        calledTtl |-> p.ttl,
        escaped |-> escaped,
        overflow |-> moved.overflow,
        underflow |-> (~ (checks /\ moved.overflow)) /\ underflow,
        respawned |-> (~ panic) /\ respawn]

\* Particle::to_coord
to_coord(p, param) == p.coord.y * param.width + p.coord.x


(***************************************************************************)
(* hue_to_rgb on rationals.  hue, saturation and value are pairs           *)
(* <<numerator, denominator>>; a denominator of 0 stands for a non-finite  *)
(* float (the result of a division by zero), which no range contains.      *)
(* Result: fault = TRUE when an assertion (or the match) panics, else the  *)
(* packed color.                                                           *)
(***************************************************************************)
\* (lo..=hi).contains(&q) for the rational q and integer bounds
RangeContains(lo, hi, q) ==
    q[2] > 0 /\ lo * q[2] <= q[1] /\ q[1] <= hi * q[2]

\* `as u32` from a float: truncation, saturating at 0
AsU32(n, d) == IF n <= 0 THEN 0 ELSE n \div d

\* the packing with red and blue exchanged
rgbSwapped(r, g, b) == b * 65536 + g * 256 + r

\* (r << 16) | (g << 8) | b ; the channels are below 256 so the bits are disjoint
rgb(r, g, b) == r * 65536 + g * 256 + b

\* unrgb
unrgb(n) == << (n \div 65536) % 256, (n \div 256) % 256, n % 256 >>

\* the match without the `| 360` alternative of its first arm
HueSectorNo360(h) ==
    CASE 0 <= h /\ h <= 59 -> <<"c", "x", "0">>
      [] 60 <= h /\ h <= 119 -> <<"x", "c", "0">>
      [] 120 <= h /\ h <= 179 -> <<"0", "c", "x">>
      [] 180 <= h /\ h <= 239 -> <<"0", "x", "c">>
      [] 240 <= h /\ h <= 299 -> <<"x", "0", "c">>
      [] 300 <= h /\ h <= 359 -> <<"c", "0", "x">>
      [] OTHER -> <<"panic", "panic", "panic">>

\* the match with 360 in the arm of 60..=119 instead of the arm of 0..=59
HueSector360Misplaced(h) ==
    CASE 0 <= h /\ h <= 59 -> <<"c", "x", "0">>
      [] (60 <= h /\ h <= 119) \/ h = 360 -> <<"x", "c", "0">>
      [] 120 <= h /\ h <= 179 -> <<"0", "c", "x">>
      [] 180 <= h /\ h <= 239 -> <<"0", "x", "c">>
      [] 240 <= h /\ h <= 299 -> <<"x", "0", "c">>
      [] 300 <= h /\ h <= 359 -> <<"c", "0", "x">>
      [] OTHER -> <<"panic", "panic", "panic">>

\* the match on `hue as u32`: which of c, x, 0 each channel takes
HueSector(h) ==
    CASE (0 <= h /\ h <= 59) \/ h = 360 -> <<"c", "x", "0">>
      [] 60 <= h /\ h <= 119 -> <<"x", "c", "0">>
      [] 120 <= h /\ h <= 179 -> <<"0", "c", "x">>
      [] 180 <= h /\ h <= 239 -> <<"0", "x", "c">>
      [] 240 <= h /\ h <= 299 -> <<"x", "0", "c">>
      [] 300 <= h /\ h <= 359 -> <<"c", "0", "x">>
      [] OTHER -> <<"panic", "panic", "panic">>

\* the three assertions at the head of hue_to_rgb
HueAsserts(hue, saturation, value) ==
    /\ RangeContains(0, 360, hue)
    /\ RangeContains(0, 1, saturation)
    /\ RangeContains(0, 1, value)

hue_to_rgb(hue, saturation, value) ==
    IF ~ HueAsserts(hue, saturation, value)
    THEN [fault |-> TRUE, color |-> 0]
    ELSE
    LET hn == hue[1]
        hd == hue[2]
        sn == saturation[1]
        sd == saturation[2]
        vn == value[1]
        vd == value[2]
        \* 1 - |(hue / 60) % 2 - 1| = xfn / xd
        xd == 60 * hd
        rem == hn % (120 * hd)
        dist == IF rem >= xd THEN rem - xd ELSE xd - rem
        xfn == xd - dist
        \* common denominator of c, x and m
        den == sd * vd * xd
        cN == sn * vn * xd
        xN == sn * vn * xfn
        mN == (vn * sd - sn * vn) * xd
        sector == HueSector(Trunc(hn, hd))
        pick(w) == IF w = "c" THEN cN ELSE IF w = "x" THEN xN ELSE 0
        chan(w) == AsU32((pick(w) + mN) * 255, den)
    IN IF sector[1] = "panic"
       THEN [fault |-> TRUE, color |-> 0]
       ELSE [fault |-> FALSE,
             color |-> rgb(chan(sector[1]), chan(sector[2]), chan(sector[3]))]

\* Particle::colorize: hue = ttl / param.ttl * 360
colorize(p, param) == hue_to_rgb(<<360 * p.ttl, param.ttl>>, <<1, 1>>, <<1, 1>>)


(***************************************************************************)
(* State of main().                                                        *)
(***************************************************************************)
VARIABLES
    param,            \* Param: width, height, ttl, iteration_speed
    overflow_checks,  \* build profile: TRUE panics on integer overflow
    particles,        \* the Vec<Particle>
    buffer,           \* the pixel buffer, index -> packed color
    pc,               \* position in main: init, fill, update, present, sleep, panicked
    i,                \* index of the loop in progress (particles handled so far)
    fault,            \* why the process panicked, "none" while it runs
    outcome,          \* single-particle run: what the last Particle::update did
    cleared,          \* the buffer was cleared since the last presentation
    writes,           \* per particle, buffer writes since the last clear
    probe,            \* a call of a pure function: its name, arguments and result
    pacing            \* once a frame is presented: ms it took, ms slept after it

vars == << param, overflow_checks, particles, buffer, pc, i, fault, outcome,
           cleared, writes, probe, pacing >>

\* every Param tried on a single particle
Params == [width : 1 .. MaxWidth, height : 1 .. MaxHeight,
           ttl : 0 .. MaxTtl, iteration_speed : IterationSpeeds]

\* the Param of main (ttl 1, iteration_speed 5) on a small canvas, and a
\* variant with a longer lifetime and a slower step
MainParams ==
    { [width |-> 2, height |-> 1, ttl |-> 1, iteration_speed |-> 5],
      [width |-> 2, height |-> 1, ttl |-> 2, iteration_speed |-> 1] }

Pixels == 0 .. (param.width * param.height - 1)

\* Coord::rand: gen_range(0..width), gen_range(0..height)
Coord_rand == [x : 0 .. (param.width - 1), y : 0 .. (param.height - 1)]

\* the draws Particle::update can make on p: Coord::rand is called only on
\* the re-insertion
RandDraws(p) ==
    IF MustRespawn(CoordAdd(p.coord, p.speed).coord, p.ttl, param)
    THEN Coord_rand
    ELSE {p.coord}

\* no frame measured yet
NoPacing == [timed |-> FALSE, elapsed |-> 0, slept |-> 0]

\* the times, in ms, a frame can have taken when it is presented
ElapsedTimes == {0, 10, 1000 \div 30, 50}

NoProbe == [fn |-> "none", args |-> << >>, result |-> << >>]

NoOutcome == [called |-> FALSE, returned |-> FALSE, calledTtl |-> 0,
              escaped |-> FALSE, overflow |-> FALSE, underflow |-> FALSE,
              respawned |-> FALSE, streak |-> 0]

\* the record kept of a call of Particle::update; streak counts the updates
\* that returned since the last re-insertion
OutcomeOf(r) == [called |-> TRUE, returned |-> ~ r.panic, calledTtl |-> r.calledTtl,
                 escaped |-> r.escaped, overflow |-> r.overflow,
                 underflow |-> r.underflow, respawned |-> r.respawned,
                 streak |-> IF r.respawned THEN 0
                            ELSE IF r.panic THEN outcome.streak
                            ELSE outcome.streak + 1]

\* the panic of a Particle::update that does not return
UpdateFault(r) == IF r.overflow THEN "coord_overflow" ELSE "ttl_underflow"

\* let mut buffer = vec![0; width * height]; particles = Vec::with_capacity(..)
Init ==
    /\ param \in MainParams
    /\ overflow_checks \in BOOLEAN
    /\ particles = << >>
    /\ buffer = [idx \in Pixels |-> 0]
    /\ pc = "init"
    /\ i = 0
    /\ fault = "none"
    /\ outcome = NoOutcome
    /\ cleared = FALSE
    /\ writes = [k \in 1 .. NbParticles |-> 0]
    /\ probe = NoProbe
    /\ pacing = NoPacing

\* particles.push(particle)
Push(ps, p) == Append(ps, p)

\* one iteration of `for i in 0..nb_particles`: new, update, push
InitParticle ==
    /\ pc = "init"
    /\ i < NbParticles
    /\ \E rnd \in RandDraws(Particle_new(0, 0, 0)), sample \in FrameSamples :
         LET r == Particle_update(Particle_new(0, 0, 0), param, rnd, sample,
                                  overflow_checks)
         IN IF r.panic
            THEN /\ pc' = "panicked"
                 /\ fault' = UpdateFault(r)
                 /\ UNCHANGED << particles, i >>
            ELSE /\ particles' = Push(particles, r.particle)
                 /\ i' = i + 1
                 /\ pc' = IF i + 1 = NbParticles THEN "fill" ELSE "init"
                 /\ fault' = "none"
    /\ UNCHANGED << param, overflow_checks, buffer, outcome, cleared, writes, probe,
                    pacing >>

\* a loop that stops one particle short
NextInLoopEarly(done, total) == IF done + 1 >= total THEN "present" ELSE "update"

\* the end of `for particle in particles.iter_mut()`: after `done` of `total`
\* particles the loop goes on, or the frame is presented
NextInLoop(done, total) == IF done = total THEN "present" ELSE "update"

\* a frame that starts from the previous frame's pixels
FilledStale(buf) == buf

\* buffer.fill(0)
Filled(buf) == [idx \in DOMAIN buf |-> 0]

Fill ==
    /\ pc = "fill"
    /\ buffer' = Filled(buffer)
    /\ cleared' = TRUE
    /\ writes' = [k \in 1 .. NbParticles |-> 0]
    /\ i' = 0
    /\ pc' = NextInLoop(0, Len(particles))
    /\ pacing' = NoPacing
    /\ UNCHANGED << param, overflow_checks, particles, fault, outcome, probe >>

\* a re-insertion that pushes the particle instead of reusing its slot
StoreParticleAppend(ps, k, p) == Append(ps, p)

\* particles.iter_mut() yields each particle in place
StoreParticle(ps, k, p) == [ps EXCEPT ![k] = p]

\* buffer[index] = color
WritePixel(buf, idx, color) == [buf EXCEPT ![idx] = color]

\* one iteration of `for particle in particles.iter_mut()`:
\* particle.update(&param); buffer[particle.to_coord(&param)] = particle.colorize(&param)
UpdateParticle ==
    /\ pc = "update"
    /\ i < Len(particles)
    /\ \E rnd \in RandDraws(particles[i + 1]), sample \in FrameSamples :
         LET k == i + 1
             r == Particle_update(particles[k], param, rnd, sample, overflow_checks)
             idx == to_coord(r.particle, param)
             col == colorize(r.particle, param)
         IN IF r.panic
            THEN /\ pc' = "panicked"
                 /\ fault' = UpdateFault(r)
                 /\ UNCHANGED << particles, buffer, i, writes >>
            ELSE /\ particles' = StoreParticle(particles, k, r.particle)
                 /\ IF idx \notin DOMAIN buffer
                    THEN /\ pc' = "panicked"
                         /\ fault' = "index_out_of_bounds"
                         /\ UNCHANGED << buffer, i, writes >>
                    ELSE IF col.fault
                    THEN /\ pc' = "panicked"
                         /\ fault' = "bad_hue"
                         /\ UNCHANGED << buffer, i, writes >>
                    ELSE /\ buffer' = WritePixel(buffer, idx, col.color)
                         /\ writes' = [writes EXCEPT ![k] = @ + 1]
                         /\ i' = i + 1
                         /\ pc' = NextInLoop(i + 1, Len(particles))
                         /\ fault' = "none"
    /\ UNCHANGED << param, overflow_checks, outcome, cleared, probe, pacing >>

\* a failed presentation that is tried again
UnwrapRetry(result) == IF result = "Err" THEN "present" ELSE "sleep"

\* window.update_with_buffer(&buffer, width, height).unwrap()
Unwrap(result) == IF result = "Err" THEN "panicked" ELSE "sleep"

Present ==
    /\ pc = "present"
    /\ \E result \in {"Ok", "Err"}, elapsed \in ElapsedTimes :
         /\ pc' = Unwrap(result)
         /\ fault' = IF result = "Err" THEN "display" ELSE "none"
         /\ pacing' = IF result = "Err" THEN pacing
                       ELSE [timed |-> TRUE, elapsed |-> elapsed, slept |-> 0]
    /\ cleared' = FALSE
    /\ UNCHANGED << param, overflow_checks, particles, buffer, i, outcome, writes,
                    probe >>

\* the argument of sleep_ms, in ms: the integer 1000 / 30
FrameInterval == 1000 \div 30

\* the time slept at the end of a frame that took `elapsed` ms: the code
\* does not measure the frame
SleepDuration(elapsed) == FrameInterval

\* std::thread::sleep_ms(1000 / 30); println!; back to the head of the loop
Sleep ==
    /\ pc = "sleep"
    /\ pc' = "fill"
    /\ pacing' = [pacing EXCEPT !.slept = SleepDuration(pacing.elapsed)]
    /\ UNCHANGED << param, overflow_checks, particles, buffer, i, fault, outcome,
                    cleared, writes, probe >>

Next == InitParticle \/ Fill \/ UpdateParticle \/ Present \/ Sleep

Spec == Init /\ [][Next]_vars

(***************************************************************************)
(* A single particle under repeated Particle::update, from                 *)
(* Particle::new(0, 0, 0) as main creates it, for every Param of Params.   *)
(***************************************************************************)
InitParticleOnly ==
    /\ param \in Params
    /\ overflow_checks \in BOOLEAN
    /\ particles = << Particle_new(0, 0, 0) >>
    /\ buffer = [idx \in Pixels |-> 0]
    /\ pc = "tick"
    /\ i = 0
    /\ fault = "none"
    /\ outcome = NoOutcome
    /\ cleared = FALSE
    /\ writes = [k \in 1 .. NbParticles |-> 0]
    /\ probe = NoProbe
    /\ pacing = NoPacing

\* particle.update(&param)
Tick ==
    /\ pc = "tick"
    /\ \E rnd \in RandDraws(particles[1]), sample \in Samples :
         LET r == Particle_update(particles[1], param, rnd, sample, overflow_checks)
         IN /\ outcome' = OutcomeOf(r)
            /\ IF r.panic
               THEN /\ pc' = "panicked"
                    /\ fault' = UpdateFault(r)
                    /\ UNCHANGED particles
               ELSE /\ particles' = StoreParticle(particles, 1, r.particle)
                    /\ pc' = "tick"
                    /\ fault' = "none"
    /\ UNCHANGED << param, overflow_checks, buffer, i, cleared, writes, probe,
                    pacing >>

NextParticle == Tick

SpecParticle == InitParticleOnly /\ [][NextParticle]_vars

(***************************************************************************)
(* hue_to_rgb as a pure function: one call on inputs in and around the     *)
(* ranges of its assertions.  Hues are in half degrees from -1 to 361,     *)
(* saturation and value in quarters from -1/4 to 5/4; <<1, 0>> is a        *)
(* non-finite input.                                                       *)
(***************************************************************************)
HueInputs == { <<n, 2>> : n \in -2 .. 722 } \cup { <<1, 0>> }
UnitInputs == { <<n, 4>> : n \in -1 .. 5 } \cup { <<1, 0>> }

InitHue ==
    /\ param = [width |-> 1, height |-> 1, ttl |-> 1, iteration_speed |-> 5]
    /\ overflow_checks = FALSE
    /\ particles = << >>
    /\ buffer = [idx \in Pixels |-> 0]
    /\ pc = "call"
    /\ i = 0
    /\ fault = "none"
    /\ outcome = NoOutcome
    /\ cleared = FALSE
    /\ writes = [k \in 1 .. NbParticles |-> 0]
    /\ probe = NoProbe
    /\ pacing = NoPacing

CallHueToRgb ==
    /\ pc = "call"
    /\ \E hue \in HueInputs, saturation \in UnitInputs, value \in UnitInputs :
         probe' = [fn |-> "hue_to_rgb", args |-> << hue, saturation, value >>,
                   result |-> hue_to_rgb(hue, saturation, value)]
    /\ pc' = "done"
    /\ UNCHANGED << param, overflow_checks, particles, buffer, i, fault, outcome,
                    cleared, writes, pacing >>

NextHue == CallHueToRgb

SpecHue == InitHue /\ [][NextHue]_vars

(***************************************************************************)
(* Coord::scale and Particle::to_coord as pure functions: one call on a    *)
(* pixel of a canvas of up to MaxDim x MaxDim.                             *)
(***************************************************************************)
MaxDim == 5

CallScale ==
    /\ pc = "call"
    /\ \E width \in 1 .. MaxDim, height \in 1 .. MaxDim :
         \E x \in 0 .. (width - 1), y \in 0 .. (height - 1) :
            LET p == Particle_new(x, y, 0)
                canvas == [width |-> width, height |-> height]
            IN probe' = [fn |-> "scale",
                         args |-> << p.coord, width, height >>,
                         result |-> [scale |-> Coord_scale(p.coord, width, height),
                                     index |-> to_coord(p, canvas)]]
    /\ pc' = "done"
    /\ UNCHANGED << param, overflow_checks, particles, buffer, i, fault, outcome,
                    cleared, writes, pacing >>

NextScale == CallScale

SpecScale == InitHue /\ [][NextScale]_vars

(***************************************************************************)
(* The velocity as a pure function: one call of                            *)
(* convert_radian_speed_to_cardinal_speed on a speed of 0..=255 and a      *)
(* direction k * pi / 4 (k = 0..8, given in degrees), or one computation   *)
(* of the velocity Particle::update stores for a sample, over a previous   *)
(* velocity.                                                               *)
(***************************************************************************)
TestDirections == { 45 * k : k \in 0 .. 8 }

PrevSpeeds == { [x |-> 0, y |-> 0], [x |-> 127, y |-> -128], [x |-> -3, y |-> 3] }

CallConvert ==
    /\ pc = "call"
    /\ \E speed \in 0 .. (U8 - 1), direction \in TestDirections :
         probe' = [fn |-> "convert",
                   args |-> << speed, direction >>,
                   result |-> convert_radian_speed_to_cardinal_speed(speed, direction)]
    /\ pc' = "done"
    /\ UNCHANGED << param, overflow_checks, particles, buffer, i, fault, outcome,
                    cleared, writes, pacing >>

CallStoreSpeed ==
    /\ pc = "call"
    /\ \E prev \in PrevSpeeds, speed \in 0 .. (U8 - 1), sample \in Samples :
         probe' = [fn |-> "store_speed",
                   args |-> << prev, speed, sample >>,
                   result |-> [direction |-> Direction(sample),
                               speed |-> StoreSpeed(prev, [param EXCEPT !.iteration_speed = speed],
                                                    sample)]]
    /\ pc' = "done"
    /\ UNCHANGED << param, overflow_checks, particles, buffer, i, fault, outcome,
                    cleared, writes, pacing >>

NextConvert == CallConvert \/ CallStoreSpeed

SpecConvert == InitHue /\ [][NextConvert]_vars

(***************************************************************************)
(* Properties.                                                             *)
(***************************************************************************)

\* C1: after every Particle::update that returns, the particle is inside the
\* canvas (coord.x < width, coord.y < height), so the index of to_coord is
\* below width * height and the buffer write is in bounds.
C1_PixelIndexInBounds ==
    /\ fault # "index_out_of_bounds"
    /\ \A k \in DOMAIN particles :
         /\ particles[k].coord.x < param.width
         /\ particles[k].coord.y < param.height
         /\ to_coord(particles[k], param) < param.width * param.height

\* an update moved the particle out of the canvas and returned it inside
C1_Witness ==
    /\ outcome.called /\ outcome.returned /\ outcome.escaped
    /\ param.ttl >= 1
    /\ to_coord(particles[1], param) = param.width * param.height - 1

\* C2: a particle whose integrated position leaves the canvas, past the high
\* edge or below 0, is re-inserted by the update that integrates it.
C2_EscapedIsRespawned ==
    (outcome.called /\ outcome.escaped) => outcome.respawned

C4_DecrementNeverUnderflows == ~ outcome.underflow

\* C5: the integration coord += speed never overflows: no i8 negation
\* overflow, no u16 underflow or overflow.
C5_IntegrationNeverOverflows == ~ outcome.overflow

\* C6: in the frame loop the population has nb_particles particles, and no
\* step of the loop changes its size.
C6_PopulationConstant ==
    /\ [](pc \in {"fill", "update", "present", "sleep"} =>
             Len(particles) = NbParticles)
    /\ [][(pc \in {"fill", "update", "present", "sleep"}) =>
             (Len(particles') = Len(particles))]_vars

\* a frame of the configuration of main, where every update re-inserts
C6_Witness ==
    /\ pc = "present"
    /\ param.ttl = 1
    /\ Len(particles) = NbParticles
    /\ \A k \in 1 .. NbParticles : writes[k] = 1

\* C7: when a frame is presented, a pixel no particle maps to holds 0 and a
\* pixel some particles map to holds the color of the last of them.
C7_ClearThenLastWriteWins ==
    pc = "present" =>
        \A idx \in Pixels :
            LET hits == { k \in 1 .. Len(particles) :
                            to_coord(particles[k], param) = idx }
                last == CHOOSE k \in hits : \A j \in hits : j <= k
            IN IF hits = {}
               THEN buffer[idx] = 0
               ELSE buffer[idx] = colorize(particles[last], param).color

\* two particles of different colors on one pixel, another pixel empty
C7_Witness ==
    /\ pc = "present"
    /\ to_coord(particles[1], param) = to_coord(particles[2], param)
    /\ colorize(particles[1], param).color # colorize(particles[2], param).color
    /\ \E idx \in Pixels : buffer[idx] = 0

\* C8: a frame is presented after the clear and after every particle wrote
\* its pixel exactly once; from the presentation to the next clear no
\* particle changes and the buffer changes only by that clear.
C8_PresentAfterAllWrites ==
    /\ [](pc = "present" =>
             cleared /\ \A k \in 1 .. NbParticles : writes[k] = 1)
    /\ [][(pc \in {"sleep", "fill"}) =>
             ((particles' = particles) /\
              ((buffer' = buffer) \/
               (pc = "fill" /\ (\A idx \in Pixels : buffer'[idx] = 0))))]_vars

\* a frame is ready for presentation: cleared, every particle wrote once,
\* and some particle was carried on without re-insertion
C8_Witness ==
    /\ pc = "present"
    /\ cleared
    /\ \A k \in 1 .. NbParticles : writes[k] = 1
    /\ \E k \in 1 .. NbParticles : particles[k].ttl # param.ttl - 1

\* C9: after a failed presentation the process has stopped: no update, no
\* buffer write, no other presentation.
C9_DisplayFailureIsFatal ==
    /\ [](fault = "display" => pc = "panicked")
    /\ [][fault = "display" =>
             ((pc' = "panicked") /\ (particles' = particles) /\
              (buffer' = buffer))]_vars

\* the display failed on a drawn frame
C9_Witness ==
    /\ fault = "display"
    /\ pc = "panicked"
    /\ \E idx \in Pixels : buffer[idx] # 0

\* C10: hue_to_rgb panics exactly when hue is outside [0, 360] or
\* saturation or value is outside [0, 1].
C10_HueFailsFast ==
    probe.fn = "hue_to_rgb" =>
        LET hue == probe.args[1]
            saturation == probe.args[2]
            value == probe.args[3]
            inside == /\ hue[2] # 0 /\ saturation[2] # 0 /\ value[2] # 0
                      /\ 0 <= hue[1] /\ hue[1] <= 360 * hue[2]
                      /\ 0 <= saturation[1] /\ saturation[1] <= saturation[2]
                      /\ 0 <= value[1] /\ value[1] <= value[2]
        IN probe.result.fault <=> ~ inside

\* hue = 360 at full saturation and value returns a color
C10_Witness ==
    /\ probe.fn = "hue_to_rgb"
    /\ probe.args = << <<720, 2>>, <<4, 4>>, <<4, 4>> >>
    /\ ~ probe.result.fault


\* C11: at full saturation and value hue 0 gives pure red 0xFF0000, hue 120
\* pure green 0x00FF00 and hue 240 pure blue 0x0000FF.
C11_PrimaryHues ==
    (/\ probe.fn = "hue_to_rgb"
     /\ probe.args[2] = <<4, 4>>
     /\ probe.args[3] = <<4, 4>>) =>
        /\ probe.args[1] = <<0, 2>> =>
              ~ probe.result.fault /\ probe.result.color = 16711680
        /\ probe.args[1] = <<240, 2>> =>
              ~ probe.result.fault /\ probe.result.color = 65280
        /\ probe.args[1] = <<480, 2>> =>
              ~ probe.result.fault /\ probe.result.color = 255

\* hue 120 was converted to pure green
C11_Witness ==
    /\ probe.fn = "hue_to_rgb"
    /\ probe.args = << <<240, 2>>, <<4, 4>>, <<4, 4>> >>
    /\ unrgb(probe.result.color) = <<0, 255, 0>>

\* C12: at full saturation and value every hue of [0, 360] gives a packed
\* color below 2^24 made of three channels of 0..255, and hue 360 gives the
\* color of hue 0.
C12_ChannelsAndWraparound ==
    (/\ probe.fn = "hue_to_rgb"
     /\ probe.args[2] = <<4, 4>>
     /\ probe.args[3] = <<4, 4>>
     /\ probe.args[1][2] = 2
     /\ 0 <= probe.args[1][1]
     /\ probe.args[1][1] <= 720) =>
        LET color == probe.result.color
            ch == unrgb(color)
        IN /\ ~ probe.result.fault
           /\ 0 <= color /\ color < 16777216
           /\ color = ch[1] * 65536 + ch[2] * 256 + ch[3]
           /\ probe.args[1][1] = 720 =>
                 color = hue_to_rgb(<<0, 1>>, <<1, 1>>, <<1, 1>>).color

\* hue 360 was converted, to the red of hue 0
C12_Witness ==
    /\ probe.fn = "hue_to_rgb"
    /\ probe.args = << <<720, 2>>, <<4, 4>>, <<4, 4>> >>
    /\ probe.result.color = 16711680


\* C13: Coord::scale maps every pixel of the canvas into [-1, 1) on each
\* axis, to_coord is y * width + x, and on a 4 x 4 canvas the pixel whose
\* scaled position is (0, 0) has index 10.
C13_ScaleAndIndex ==
    probe.fn = "scale" =>
        LET coord == probe.args[1]
            width == probe.args[2]
            height == probe.args[3]
            sx == probe.result.scale[1]
            sy == probe.result.scale[2]
        IN /\ sx[2] > 0 /\ - sx[2] <= sx[1] /\ sx[1] < sx[2]
           /\ sy[2] > 0 /\ - sy[2] <= sy[1] /\ sy[1] < sy[2]
           /\ probe.result.index = coord.y * width + coord.x
           /\ (width = 4 /\ height = 4 /\ sx[1] = 0 /\ sy[1] = 0) =>
                 probe.result.index = 10

\* the pixel of a 4 x 4 canvas whose scaled position is (0, 0)
C13_Witness ==
    /\ probe.fn = "scale"
    /\ probe.args[2] = 4 /\ probe.args[3] = 4
    /\ probe.result.scale[1][1] = 0 /\ probe.result.scale[2][1] = 0
    /\ probe.result.index = 10


\* C14: convert_radian_speed_to_cardinal_speed gives speed * cos and
\* speed * sin truncated toward zero and cast to i8: on the axes the
\* component is the speed, on the diagonals the largest r with 2 r^2 <=
\* speed^2, both clamped to -128..127; for speed 2 and k * pi / 4, k = 0..8,
\* the results are those of the test convert_direction.
C14_ConvertDirection ==
    probe.fn = "convert" =>
        LET speed == probe.args[1]
            k == probe.args[2] \div 45
            diag == CHOOSE r \in 0 .. speed :
                        2 * r * r <= speed * speed /\ 2 * (r + 1) * (r + 1) > speed * speed
            clamp(v) == IF v > 127 THEN 127 ELSE IF v < -128 THEN -128 ELSE v
            cosOf == << speed, diag, 0, - diag, - speed, - diag, 0, diag, speed >>
            sinOf == << 0, diag, speed, diag, 0, - diag, - speed, - diag, 0 >>
            expected == << <<2, 0>>, <<1, 1>>, <<0, 2>>, <<-1, 1>>, <<-2, 0>>,
                           <<-1, -1>>, <<0, -2>>, <<1, -1>>, <<2, 0>> >>
        IN /\ probe.result = << clamp(cosOf[k + 1]), clamp(sinOf[k + 1]) >>
           /\ speed = 2 => probe.result = expected[k + 1]

\* speed 2 at 3 pi / 4 gives (-1, 1)
C14_Witness ==
    /\ probe.fn = "convert"
    /\ probe.args = << 2, 135 >>
    /\ probe.result = << -1, 1 >>

\* C16: the velocity Particle::update stores is bounded by iteration_speed
\* on each axis and in norm, and does not depend on the previous velocity.
C16_VelocityBounded ==
    probe.fn = "store_speed" =>
        LET speed == probe.args[2]
            sample == probe.args[3]
            v == probe.result.speed
            fromRest == StoreSpeed([x |-> 0, y |-> 0],
                                   [param EXCEPT !.iteration_speed = speed], sample)
        IN /\ - speed <= v.x /\ v.x <= speed
           /\ - speed <= v.y /\ v.y <= speed
           /\ v.x * v.x + v.y * v.y <= speed * speed
           /\ v = fromRest

\* a saturated velocity stored over a previous velocity that is not zero
C16_Witness ==
    /\ probe.fn = "store_speed"
    /\ probe.args[1] = [x |-> 127, y |-> -128]
    /\ probe.args[2] = 255
    /\ probe.result.speed = [x |-> -128, y |-> 0]

\* C17 as stated: the direction derived from a sample of [-1, 1] lies in
\* [0, 360) degrees.
C17_DirectionInZeroTo360 ==
    probe.fn = "store_speed" =>
        (0 <= probe.result.direction /\ probe.result.direction < 360)

\* C17 amended: the direction derived from a sample of [-1, 1] is the
\* sample times 180 and lies in [-180, 180] degrees.
C17_DirectionInHalfTurns ==
    probe.fn = "store_speed" =>
        /\ -180 <= probe.result.direction /\ probe.result.direction <= 180
        /\ 4 * probe.result.direction = 180 * probe.args[3]

\* the sample -1 gives the direction -180
C17_Witness ==
    /\ probe.fn = "store_speed"
    /\ probe.args[3] = -4
    /\ probe.result.direction = -180


\* C15: at the end of a frame no sleep occurs when the frame took the frame
\* interval or more, and otherwise the sleep lasts the remainder of the
\* interval.
C15_SleepsTheRemainder ==
    (pc = "fill" /\ pacing.timed) =>
        pacing.slept = (IF pacing.elapsed >= FrameInterval
                        THEN 0
                        ELSE FrameInterval - pacing.elapsed)


\* C18: for param.ttl >= 1, after every update that returns the ttl is in
\* 0 .. param.ttl - 1, so the hue ttl / param.ttl * 360 is in [0, 360) and
\* colorize passes the assertions of hue_to_rgb.
C18_TtlBelowMaximum ==
    (param.ttl >= 1 /\ outcome.called /\ outcome.returned) =>
        /\ 0 <= particles[1].ttl
        /\ particles[1].ttl <= param.ttl - 1
        /\ 360 * particles[1].ttl < 360 * param.ttl
        /\ ~ colorize(particles[1], param).fault

\* a particle in the middle of its life: ttl 1 of 2, hue 180
C18_Witness ==
    /\ outcome.called /\ outcome.returned
    /\ param.ttl = 2
    /\ particles[1].ttl = 1
    /\ unrgb(colorize(particles[1], param).color) = <<0, 255, 255>>

\* C19: for param.ttl >= 1 a particle is carried on by at most
\* param.ttl - 1 consecutive updates without a re-insertion.
C19_BoundedLifetime ==
    param.ttl >= 1 => outcome.streak <= param.ttl - 1

\* a particle carried on by param.ttl - 1 updates since its re-insertion
C19_Witness ==
    /\ outcome.called /\ outcome.returned /\ ~ outcome.respawned
    /\ param.ttl = MaxTtl
    /\ outcome.streak = param.ttl - 1
    /\ particles[1].ttl = 0


\* C20: with param.ttl = 1 every update of the frame loop re-inserts its
\* particle: it returns, leaves the particle with ttl 0, and the pixels
\* written so far are all 0xFF0000.
C20_EveryUpdateIsRespawn ==
    [][((param.ttl = 1) /\ (pc = "update") /\ ((pc' # pc) \/ (i' # i))) =>
           ((pc' # "panicked")
            /\ (particles'[i + 1].ttl = 0)
            /\ (\A idx \in Pixels : buffer'[idx] \in {0, rgb(255, 0, 0)}))]_vars

=============================================================================
